---- MODULE Spec2Model ----
(***************************************************************************)
(* Model of the PatternRecognition component (src/unnamed/part_000), which *)
(* EnhancedDashboardView.jsx renders under its pattern tab: the             *)
(* freehand stroke, the time-series corpus, the search                     *)
(* (searchForMatchingPatterns), the arc-length resampler (resampleCurve)   *)
(* and the DTW scorer (calculateDTWSimilarity).                            *)
(*                                                                         *)
(* Numbers.  Pixel coordinates and sales values are integers.  A number of *)
(* the unit square (a normalized or resampled coordinate, a path length, a *)
(* DTW cost) is held in fixed point: the integer k stands for k / Unit.    *)
(* A quotient is rounded down to a multiple of 1 / Unit and a square root  *)
(* to the integer square root, where the code rounds to a double.  Zero    *)
(* and the equality of equal inputs are kept.  The order of two unequal    *)
(* values is kept when they are further apart than the rounding of both    *)
(* arithmetics (Rounding); of two distances that are closer the model does *)
(* not say which is the smaller double: the sort of the search has every   *)
(* order of them as an outcome.                                            *)
(***************************************************************************)
EXTENDS Integers, Sequences, FiniteSets, TLC

VARIABLES
  data,              \* the data prop: the records
  activeAdvancedTab, \* useState('interactive') (EnhancedDashboardView.jsx
                     \* line 17): the tab of the page
  timeSeriesData,    \* the array the useMemo of lines 50-109 holds
  stack,             \* the handler that is running, if one is
  drawingPoints,     \* useState([]) (line 13): the stroke, in canvas pixels
  isDrawing,         \* useState(false) (line 14)
  patternResults,    \* useState([]) (line 15)
  searching,         \* useState(false) (line 17)
  selectedCategory,  \* useState('All') (line 18)
  rendered,          \* the isDrawing, drawingPoints and selectedCategory of
                     \* the last render: what the closures of that render
                     \* hold and what the page shows
  handler,           \* the isDrawing, drawingPoints and selectedCategory of
                     \* the render whose canvas handlers are registered
                     \* (lines 246-255)
  effectPending,     \* the last render changed isDrawing or drawingPoints
                     \* and the effect of lines 203-268 has not run for it
  lastEvent,         \* the event handled last
  searchRan,         \* the last event ran the search past its guard (line 272)
  dtwCalls,          \* the curve lengths of the DTW calls of the last event
  threw,             \* the expression at which the handler of the last event
                     \* raised a TypeError
  events,            \* the number of events handled
  call,              \* a call of one of the pure functions: its name and arguments
  returned,          \* the call has returned
  ret,               \* the value it returned
  loop               \* the locals of resampleCurve while its loops run

vars == <<data, activeAdvancedTab, timeSeriesData, stack, drawingPoints, isDrawing, patternResults, searching,
          selectedCategory, rendered, handler, effectPending, lastEvent,
          searchRan, dtwCalls, threw, events, call, returned, ret, loop>>

\* the number of events of one run
MaxEvents == 9

(* 1.0 in fixed point; a multiple of 19 = numSamplePoints - 1 and of the   *)
(* small ranges and period counts the inputs use, so their quotients are   *)
(* exact.                                                                  *)
Unit == 19 * 11 * 120

\* Number.POSITIVE_INFINITY, the fill value of the DTW table (line 396).
Infinity == 2000000000

\* Number.NaN, the value of 0 / 0 (line 307 with a single period).
NaN == -1000000000

\* const numSamplePoints = 20 (line 288)
numSamplePoints == 20

\* .slice(0, 10) (line 327)
topK == 10

\* drawingPoints.length >= 5 (lines 241 and 677)
minDrawPoints == 5

-----------------------------------------------------------------------------
(* Arithmetic                                                              *)

Abs(v) == IF v < 0 THEN -v ELSE v

Min2(u, v) == IF u <= v THEN u ELSE v

Max2(u, v) == IF u >= v THEN u ELSE v

\* Math.min(...xs) and Math.max(...xs) of a non-empty array (lines 277-280, 303-304)
RECURSIVE MinFrom(_, _, _)
MinFrom(xs, i, acc) ==
  IF i > Len(xs) THEN acc ELSE MinFrom(xs, i + 1, Min2(acc, xs[i]))

RECURSIVE MaxFrom(_, _, _)
MaxFrom(xs, i, acc) ==
  IF i > Len(xs) THEN acc ELSE MaxFrom(xs, i + 1, Max2(acc, xs[i]))

MathMin(xs) == MinFrom(xs, 2, xs[1])

MathMax(xs) == MaxFrom(xs, 2, xs[1])

\* v || 1 (lines 283, 284, 308): a zero range is replaced by 1
OrOne(v) == IF v = 0 THEN 1 ELSE v

\* a / b of two integers, as a fixed-point number; 0 / 0 is NaN
Ratio(a, b) ==
  IF b = 0 THEN (IF a = 0 THEN NaN ELSE Infinity) ELSE (a * Unit) \div b

\* Math.sqrt(dx*dx + dy*dy) (lines 349, 368) of two fixed-point numbers:
\* the integer square root of dx^2 + dy^2, by bisection
RECURSIVE SqrtBetween(_, _, _)
SqrtBetween(v, lo, hi) ==
  IF lo >= hi THEN lo
  ELSE LET mid == (lo + hi + 1) \div 2
       IN IF mid * mid <= v THEN SqrtBetween(v, mid, hi)
                            ELSE SqrtBetween(v, lo, mid - 1)

Hypot(dx, dy) ==
  IF dy = 0 THEN Abs(dx)
  ELSE IF dx = 0 THEN Abs(dy)
  ELSE SqrtBetween(dx * dx + dy * dy, 0, 46340)

Pt(px, py) == [x |-> px, y |-> py]

-----------------------------------------------------------------------------
(* resampleCurve (lines 339-388)                                           *)

\* lines 345-350: the total path length
RECURSIVE PathLengthFrom(_, _, _)
PathLengthFrom(points, i, acc) ==
  IF i > Len(points) THEN acc
  ELSE PathLengthFrom(points, i + 1,
         acc + Hypot(points[i].x - points[i-1].x, points[i].y - points[i-1].y))

PathLength(points) == PathLengthFrom(points, 2, 0)

\* a sample put at the end of the segment
InterpolateToSegmentEnd(prev, num, den, dx, dy) == Pt(prev.x + dx, prev.y + dy)

\* lines 372-376: the point at t = num / den of the segment from prev, with
\* t kept as the exact fraction (targetDistance - currentDistance) / segmentLength
Interpolate(prev, num, den, dx, dy) ==
  IF den = 0 THEN Pt(NaN, NaN)
  ELSE Pt(prev.x + (num * dx) \div den, prev.y + (num * dy) \div den)

\* a loop that goes on when the target distance is reached already
AdvancingInclusive(cd, target, idx, points) ==
  cd <= target /\ idx <= Len(points)

\* line 364: currentDistance < targetDistance && pointIndex < points.length
\* (idx is pointIndex + 1)
Advancing(cd, target, idx, points) ==
  cd < target /\ idx <= Len(points)

\* lines 364-383: the while loop for one targetDistance.  st is the loop
\* state [cd: currentDistance, prev: prevPoint, idx: pointIndex (1-based)];
\* the result adds hit (a sample was pushed) and pt (the sample).
RECURSIVE Walk(_, _, _)
Walk(points, target, st) ==
  IF Advancing(st.cd, target, st.idx, points)
  THEN LET nextPoint == points[st.idx]
           dx == nextPoint.x - st.prev.x
           dy == nextPoint.y - st.prev.y
           segmentLength == Hypot(dx, dy)
       IN IF st.cd + segmentLength >= target
          THEN [cd |-> st.cd, prev |-> st.prev, idx |-> st.idx, hit |-> TRUE,
                pt |-> Interpolate(st.prev, target - st.cd, segmentLength, dx, dy)]
          ELSE Walk(points, target,
                    [cd |-> st.cd + segmentLength, prev |-> nextPoint,
                     idx |-> st.idx + 1])
  ELSE [cd |-> st.cd, prev |-> st.prev, idx |-> st.idx, hit |-> FALSE,
        pt |-> st.prev]

\* lines 353 and 361: targetDistance = i * stepSize with stepSize =
\* pathLength / (numPoints - 1); the product is formed before the quotient
\* is rounded, so that the rounding of stepSize is not multiplied by i
TargetDistance(i, pathLength, n) == (i * pathLength) \div (n - 1)

\* lines 360-384: the for loop over i = 1 .. n-2
RECURSIVE Samples(_, _, _, _, _, _)
Samples(points, n, pathLength, i, st, result) ==
  IF i >= n - 1 THEN result
  ELSE LET w == Walk(points, TargetDistance(i, pathLength, n), st)
       IN IF w.hit
          THEN Samples(points, n, pathLength, i + 1,
                       [cd |-> w.cd, prev |-> w.prev, idx |-> w.idx],
                       Append(result, w.pt))
          ELSE Samples(points, n, pathLength, i + 1,
                       [cd |-> w.cd, prev |-> w.prev, idx |-> w.idx], result)

\* a resampler that forgets to add the last input point
ResampleWithoutLastPoint(points, n) ==
  IF Len(points) <= 1 THEN points
  ELSE Samples(points, n, PathLength(points), 1,
               [cd |-> 0, prev |-> points[1], idx |-> 2], <<points[1]>>)

resampleCurve(points, n) ==
  IF Len(points) <= 1 THEN points
  ELSE Append(Samples(points, n, PathLength(points), 1,
                      [cd |-> 0, prev |-> points[1], idx |-> 2],
                      <<points[1]>>),
              points[Len(points)])

-----------------------------------------------------------------------------
(* calculateDTWSimilarity (lines 391-414)                                  *)

\* line 405: cost + Math.min(...), where Infinity absorbs the sum
PlusCost(cost, least) == IF least = Infinity THEN Infinity ELSE cost + least

\* a cost that counts the X distance too
CellCostWithX(p, q) == Abs(p.x - q.x) + Abs(p.y - q.y)

\* lines 402-404: Math.sqrt(Math.pow(a.y - b.y, 2))
CellCost(p, q) == Abs(p.y - q.y)

\* a scorer that forgets the match step dtw[i-1][j-1]
LeastWithoutMatch(up, left, diag) == Min2(up, left)

\* a scorer that forgets the deletion step dtw[i][j-1]
LeastWithoutDeletion(up, left, diag) == Min2(up, diag)

\* lines 405-409: the three predecessors of a cell
Least3(up, left, diag) == Min2(up, Min2(left, diag))

\* line 401: the loop over j for row i (point p = a[i-1]): row holds
\* dtw[i][0 .. Len(row)-1] and above is dtw[i-1]; a row of the table is a
\* sequence whose index j+1 holds column j
RECURSIVE DTWRow(_, _, _, _)
DTWRow(p, b, above, row) ==
  IF Len(row) > Len(b) THEN row
  ELSE DTWRow(p, b, above,
         Append(row, PlusCost(CellCost(p, b[Len(row)]),
                              Least3(above[Len(row) + 1], row[Len(row)],
                                     above[Len(row)]))))

\* line 400: the loop over i; table holds the rows dtw[0 .. Len(table)-1]
RECURSIVE DTWRows(_, _, _)
DTWRows(a, b, table) ==
  IF Len(table) > Len(a) THEN table
  ELSE DTWRows(a, b,
         Append(table, DTWRow(a[Len(table)], b, table[Len(table)], <<Infinity>>)))

\* lines 396-397: row 0 of the table, dtw[0][0] = 0 and Infinity elsewhere
DTWRow0(m) == [j \in 1..(m + 1) |-> IF j = 1 THEN 0 ELSE Infinity]

\* lines 396-411: the whole table, dtw[i][j] at DTWTable(a, b)[i+1][j+1]
DTWTable(a, b) == DTWRows(a, b, <<DTWRow0(Len(b))>>)

\* line 413: return dtw[n][m]
calculateDTWSimilarity(a, b) == DTWTable(a, b)[Len(a) + 1][Len(b) + 1]

-----------------------------------------------------------------------------
(* The corpus: the data prop, timeSeriesData (lines 50-109) and categories *)
(* (lines 42-47)                                                           *)

\* one record of the data prop.  OrderDate is the number of the month of the
\* record (the keys of line 60 sort as the months do) and 0 when the record
\* has no date; ProductName and CategoryName are "" when the record has none
Item(month, product, category, quantity, price) ==
  [OrderDate |-> month, ProductName |-> product, CategoryName |-> category,
   OrderItemQuantity |-> quantity, PerUnitPrice |-> price]

\* new Set(...) (lines 45 and 84): the distinct values, in the order of their
\* first occurrence
RECURSIVE Distinct(_, _, _)
Distinct(values, i, seen) ==
  IF i > Len(values) THEN seen
  ELSE IF \E k \in 1..Len(seen) : seen[k] = values[i]
       THEN Distinct(values, i + 1, seen)
       ELSE Distinct(values, i + 1, Append(seen, values[i]))

\* line 57: the records that are grouped
GroupedItems(items) ==
  SelectSeq(items, LAMBDA item : ~(item.OrderDate = 0 \/ item.ProductName = ""))

\* the largest array index that a product name of the inputs is the numeral
\* of
MaxIndex == 9999

\* the canonical numerals of the array indices
Numerals == {ToString(k) : k \in 0..MaxIndex}

\* the array index a property name is the canonical numeral of ("7" of 7,
\* "07" and "-1" of none), and -1 for every other name
IndexOf(name) ==
  IF name \in Numerals THEN CHOOSE k \in 0..MaxIndex : ToString(k) = name
  ELSE -1

RECURSIVE Ascending(_)
Ascending(numbers) ==
  IF numbers = {} THEN <<>>
  ELSE LET least == CHOOSE n \in numbers : \A o \in numbers : n <= o
       IN <<least>> \o Ascending(numbers \ {least})

\* the own property names of an object in the order of Object.values and
\* Object.keys: the array indices first, in ascending order, then the other
\* names in the order in which they were added
OwnKeys(names) ==
  LET indices == Ascending({IndexOf(names[i]) : i \in 1..Len(names)} \ {-1})
  IN [k \in 1..Len(indices) |-> ToString(indices[k])]
     \o SelectSeq(names, LAMBDA name : IndexOf(name) = -1)

\* lines 64-71, 85 and 91: the keys of productMap, added at the first record
\* of each product, as Object.values(productMap) lists them
ProductsOf(items) ==
  OwnKeys(Distinct([i \in 1..Len(items) |-> items[i].ProductName], 1, <<>>))

\* the property names every object inherits from Object.prototype
ObjectPrototypeNames ==
  {"constructor", "hasOwnProperty", "isPrototypeOf", "propertyIsEnumerable",
   "toLocaleString", "toString", "valueOf", "__proto__", "__defineGetter__",
   "__defineSetter__", "__lookupGetter__", "__lookupSetter__"}

\* lines 64 and 73: for a product with an inherited name productMap[product]
\* is the inherited value, no entry is created, its months is undefined and
\* line 73 reads months[month] of undefined
ReadsMissingMonths(records) ==
  \E i \in 1..Len(GroupedItems(records)) :
     GroupedItems(records)[i].ProductName \in ObjectPrototypeNames

\* what a read of a property of undefined throws
TypeError == "TypeError"

\* lines 62-67: the category of a product is that of its first record, and
\* 'Unknown' when that record has none
CategoryOf(items, product) ==
  LET first == CHOOSE i \in 1..Len(items) :
                 /\ items[i].ProductName = product
                 /\ \A j \in 1..(i - 1) : items[j].ProductName # product
  IN IF items[first].CategoryName = "" THEN "Unknown"
     ELSE items[first].CategoryName

\* line 77
SalesValue(item) == item.OrderItemQuantity * item.PerUnitPrice

\* lines 73-78 and 94: months[month] of a product, 0 without a record
RECURSIVE MonthSales(_, _, _, _)
MonthSales(items, product, month, i) ==
  IF i > Len(items) THEN 0
  ELSE (IF items[i].ProductName = product /\ items[i].OrderDate = month
        THEN SalesValue(items[i]) ELSE 0)
       + MonthSales(items, product, month, i + 1)

\* line 88: .sort()
RECURSIVE SortedMonths(_)
SortedMonths(months) ==
  IF months = {} THEN <<>>
  ELSE LET first == CHOOSE m \in months : \A o \in months : m <= o
       IN <<first>> \o SortedMonths(months \ {first})

\* lines 83-88: the shared period axis
AllMonths(items) == SortedMonths({items[i].OrderDate : i \in 1..Len(items)})

\* lines 97-102: one entry of the result array; data holds the sales of the
\* periods of the shared axis (allMonths), in chronological order
Series(product, category, sales) ==
  [product |-> product, category |-> category, data |-> sales]

\* lines 54-103: the result array
SeriesOfProducts(items, products, allMonths) ==
  [k \in 1..Len(products) |->
     Series(products[k], CategoryOf(items, products[k]),
            [m \in 1..Len(allMonths) |->
               MonthSales(items, products[k], allMonths[m], 1)])]

ResultOf(records) ==
  SeriesOfProducts(GroupedItems(records), ProductsOf(GroupedItems(records)),
                   AllMonths(GroupedItems(records)))

\* line 107: series.data.filter(d => d.sales > 0).length
RECURSIVE PositiveCount(_, _)
PositiveCount(sales, i) ==
  IF i > Len(sales) THEN 0
  ELSE (IF sales[i] > 0 THEN 1 ELSE 0) + PositiveCount(sales, i + 1)

\* lines 106-108: count >= Math.min(5, allMonths.length / 2), with both
\* sides doubled to stay in the integers
HasSupport(series, periodCount) ==
  2 * PositiveCount(series.data, 1) >= Min2(2 * 5, periodCount)

\* lines 105-108: the series of the products that pass the support filter;
\* every series has one value per period of the shared axis
SupportedSeries(result) ==
  SelectSeq(result, LAMBDA series : HasSupport(series, Len(series.data)))

\* lines 50-109: the value of the useMemo callback, or the TypeError it
\* throws
TimeSeriesOf(records) ==
  IF ReadsMissingMonths(records) THEN TypeError
  ELSE SupportedSeries(ResultOf(records))

\* lines 42-47: 'All' and the distinct category names of the records, those
\* of the records without one left out (.filter(Boolean))
CategoriesOf(records) ==
  <<"All">> \o SelectSeq(Distinct([i \in 1..Len(records) |->
                                     records[i].CategoryName], 1, <<>>),
                         LAMBDA name : name # "")

-----------------------------------------------------------------------------
(* searchForMatchingPatterns (lines 271-336)                               *)

Xs(points) == [i \in 1..Len(points) |-> points[i].x]

Ys(points) == [i \in 1..Len(points) |-> points[i].y]

\* a normalization of the stroke that keeps the direction of the canvas Y
NormalizedDrawingPointNotInverted(p, minX, maxX, minY, maxY) ==
  Pt(Ratio(p.x - minX, OrOne(maxX - minX)),
     Ratio(p.y - minY, OrOne(maxY - minY)))

\* lines 283-284: one point of normalizedDrawing; Y is inverted
NormalizedDrawingPoint(p, minX, maxX, minY, maxY) ==
  Pt(Ratio(p.x - minX, OrOne(maxX - minX)),
     Unit - Ratio(p.y - minY, OrOne(maxY - minY)))

\* lines 282-285: the map over drawingPoints
NormalizedDrawingIn(points, minX, maxX, minY, maxY) ==
  [i \in 1..Len(points) |->
     NormalizedDrawingPoint(points[i], minX, maxX, minY, maxY)]

\* lines 277-285
NormalizedDrawing(points) ==
  NormalizedDrawingIn(points, MathMin(Xs(points)), MathMax(Xs(points)),
                      MathMin(Ys(points)), MathMax(Ys(points)))

\* lines 307-308: one point of normalizedSeries (i counts from 0)
NormalizedSeriesPoint(sales, i, periodCount, minVal, maxVal) ==
  Pt(Ratio(i, periodCount - 1), Ratio(sales - minVal, OrOne(maxVal - minVal)))

\* lines 306-309: the map over series.data
NormalizedSeriesIn(values, minVal, maxVal) ==
  [i \in 1..Len(values) |->
     NormalizedSeriesPoint(values[i], i - 1, Len(values), minVal, maxVal)]

\* lines 302-309
NormalizedSeries(values) == NormalizedSeriesIn(values, MathMin(values), MathMax(values))

\* a filter that lets every category through
AnyCategory(series, category) == TRUE

\* lines 293-299: the category filter
InCategory(series, category) ==
  IF category # "All" THEN series.category = category ELSE TRUE

FilterByCategory(corpus, category) ==
  SelectSeq(corpus, LAMBDA series : InCategory(series, category))

\* line 312
SampledSeries(series) ==
  resampleCurve(NormalizedSeries(series.data), numSamplePoints)

\* lines 300-322: the entry of the results array for one series
ScoreSeries(sampledDrawing, series) ==
  [product |-> series.product, category |-> series.category,
   data |-> series.data,
   similarity |-> calculateDTWSimilarity(sampledDrawing, SampledSeries(series)),
   normalizedData |-> NormalizedSeries(series.data)]

\* the most by which a distance of the model and the double of the code
\* differ on the inputs of the model
Rounding == Unit \div 100

\* lines 302-309: the two series have the same normalized curve, the
\* quotients of line 308 being equal; their distances to a stroke are then
\* the same double
SameCurve(a, b) ==
  /\ Len(a.data) = Len(b.data)
  /\ \A i \in 1..Len(a.data) :
        (a.data[i] - MathMin(a.data)) * OrOne(MathMax(b.data) - MathMin(b.data))
          = (b.data[i] - MathMin(b.data)) * OrOne(MathMax(a.data) - MathMin(a.data))

\* line 326: the comparator (a, b) => a.similarity - b.similarity says that
\* a goes before b
Before(a, b) == a.similarity - b.similarity < 0

\* an order that puts the later of two equal entries first
LaterFirst(i, j) == i > j

\* Array.prototype.sort is stable: of two entries the comparator gives 0
\* for, the one that was first in the array stays first
EarlierFirst(i, j) == i < j

\* line 326: entry i of results is sorted before entry j whatever the
\* rounding.  Equal distances keep their order; of two distances that differ
\* by more than Rounding the smaller comes first; the order of the doubles
\* of two that are closer is not known
Precedes(results, i, j) ==
  IF SameCurve(results[i], results[j]) THEN EarlierFirst(i, j)
  ELSE /\ Abs(results[i].similarity - results[j].similarity) > Rounding
       /\ Before(results[i], results[j])

\* the entries that no other entry of rest is sorted before
FirstOf(results, rest) ==
  {i \in rest : \A j \in rest : ~Precedes(results, j, i)}

\* the orders of the entries rest of results that agree with Precedes
RECURSIVE Orders(_, _)
Orders(results, rest) ==
  IF rest = {} THEN {<<>>}
  ELSE UNION {{<<results[i]>> \o tail : tail \in Orders(results, rest \ {i})} :
                i \in FirstOf(results, rest)}

\* a search that forgets to sort
NotSorted(results) == {results}

\* line 326: results.sort(...): the array the sort can leave, one for each
\* order the doubles of the distances can have
SortBySimilarity(results) == Orders(results, 1..Len(results))

\* line 327: .slice(0, 10)
Slice(results, count) == SubSeq(results, 1, Min2(count, Len(results)))

\* lines 287-289
SampledDrawing(points) == resampleCurve(NormalizedDrawing(points), numSamplePoints)

\* lines 300-322: the map over the filtered series
ScoreAll(sampledDrawing, filtered) ==
  [i \in 1..Len(filtered) |-> ScoreSeries(sampledDrawing, filtered[i])]

\* lines 292-322: the results array, in corpus order
ScoredResults(points, corpus, category) ==
  ScoreAll(SampledDrawing(points), FilterByCategory(corpus, category))

\* lines 325-327: the values sortedResults can have
SortedResults(points, corpus, category) ==
  {Slice(sorted, topK) :
     sorted \in SortBySimilarity(ScoredResults(points, corpus, category))}

\* line 315: the lengths of the two curves of every call of
\* calculateDTWSimilarity made by one search
CallLengths(sampledDrawing, filtered) ==
  {<<Len(sampledDrawing), Len(SampledSeries(filtered[i]))>> :
     i \in 1..Len(filtered)}

DTWCallLengths(points, corpus, category) ==
  CallLengths(SampledDrawing(points), FilterByCategory(corpus, category))

\* a quality without the lower clamp
QualityNotClamped(similarity) == 100 * Unit - similarity * 20

\* lines 508 and 536: Math.max(0, 100 - d.similarity * 20)
MatchQuality(similarity) == Max2(0, 100 * Unit - similarity * 20)

\* lines 508 and 536: .toFixed(0) of a number that is not negative, the
\* nearest integer, the larger one of two
ToFixed0(v) == (v + Unit \div 2) \div Unit

\* lines 508 and 536: the percentage of the 'Match Quality' text
MatchQualityShown(similarity) == ToFixed0(MatchQuality(similarity))

-----------------------------------------------------------------------------
(* The statements of endDrawing and searchForMatchingPatterns (lines       *)
(* 237-244 and 271-336)                                                    *)
(*                                                                         *)
(* An array or an object of the program is a cell of a heap, and a value   *)
(* that refers to one is its address: two names can refer to one array,    *)
(* and a write through one shows through the other.  The arrays are        *)
(* drawingPoints, timeSeriesData and those the handler makes; the objects  *)
(* are the series of timeSeriesData and the entries of results.  A point   *)
(* and the data of a series are only read (lines 277-285 and 302-309) and  *)
(* are held by value.                                                      *)
(* A call of a state setter is queued; React applies the queue when the    *)
(* handler has returned (React 18 batches the updates of every handler).   *)

\* the address of the next array or object made
NewAddress(heap) == Len(heap) + 1

\* the heap with cell at address, a new cell or one written over
Store(heap, address, cell) ==
  IF address = NewAddress(heap) THEN Append(heap, cell)
  ELSE [heap EXCEPT ![address] = cell]

\* the objects an array of addresses refers to
Deref(heap, array) == [i \in 1..Len(heap[array]) |-> heap[heap[array][i]]]

\* a handler is called for an event of some type, with the closure of a
\* render (its drawingPoints and selectedCategory) and timeSeriesData: the
\* line of its next statement, the heap, the addresses its names hold (0
\* before the assignment) and the state updates it has queued
Enter(name, type, line, closure, corpus) ==
  [handler |-> name, event |-> type, pc |-> line, closure |-> closure,
   selectedCategory |-> closure.selectedCategory,
   heap |-> <<closure.drawingPoints, [i \in 1..Len(corpus) |-> 2 + i]>>
            \o corpus,
   drawingPoints |-> 1, timeSeriesData |-> 2,
   normalizedDrawing |-> 0, sampledDrawing |-> 0, filtered |-> 0,
   results |-> 0, sortedResults |-> 0,
   queue |-> <<>>, dtwCalls |-> {}]

\* the handler goes on at line
At(f, line) == [f EXCEPT !.pc = line]

\* a call of the setter of the state name
SetState(f, name, value) ==
  [f EXCEPT !.queue = Append(@, [state |-> name, value |-> value])]

\* line 238: setIsDrawing(false)
SetIsDrawingFalse(f) == At(SetState(f, "isDrawing", FALSE), "241")

\* lines 241-243: the search is called for a stroke of 5 points
TestStrokeLength(f) ==
  IF Len(f.heap[f.drawingPoints]) >= minDrawPoints THEN At(f, "272")
  ELSE At(f, "return")

\* line 272: the guard
TestEmpty(f) ==
  IF Len(f.heap[f.drawingPoints]) = 0 \/ Len(f.heap[f.timeSeriesData]) = 0
  THEN At(f, "return")
  ELSE At(f, "274")

\* line 274: setSearching(true)
SetSearchingTrue(f) == At(SetState(f, "searching", TRUE), "277")

\* lines 277-285: drawingPoints.map(...) returns a new array
NormalizeDrawing(f) ==
  At([f EXCEPT !.heap = Append(@, NormalizedDrawing(f.heap[f.drawingPoints])),
               !.normalizedDrawing = NewAddress(f.heap)], "288")

\* lines 288-289: resampleCurve returns its argument when that has one point
\* (line 340) and a new array otherwise (lines 358 and 387)
ResampleDrawing(f) ==
  IF Len(f.heap[f.normalizedDrawing]) <= 1
  THEN At([f EXCEPT !.sampledDrawing = f.normalizedDrawing], "292")
  ELSE At([f EXCEPT !.heap = Append(@, resampleCurve(f.heap[f.normalizedDrawing],
                                                     numSamplePoints)),
                    !.sampledDrawing = NewAddress(f.heap)], "292")

\* lines 292-299: timeSeriesData.filter(...) returns a new array of the
\* series that pass
FilterSeries(f) ==
  At([f EXCEPT !.heap = Append(@, SelectSeq(f.heap[f.timeSeriesData],
                           LAMBDA series : InCategory(f.heap[series],
                                                      f.selectedCategory))),
               !.filtered = NewAddress(f.heap)], "300")

\* a map that writes the entry over the series it was computed from
AddressOfSeries(heap, series) == series

\* line 317: the entry is a new object ({...series, similarity,
\* normalizedData})
AddressOfCopy(heap, series) == NewAddress(heap)

\* lines 300-322: the callback of .map, for the series from i on; the heap
\* and the addresses of the entries so far
RECURSIVE MapFrom(_, _, _, _, _)
MapFrom(heap, sampledDrawing, filtered, i, entries) ==
  IF i > Len(filtered) THEN [heap |-> heap, entries |-> entries]
  ELSE LET series == filtered[i]
           address == AddressOfCopy(heap, series)
       IN MapFrom(Store(heap, address, ScoreSeries(sampledDrawing, heap[series])),
                  sampledDrawing, filtered, i + 1, Append(entries, address))

\* lines 300-322: .map(...) returns a new array, results
MapSeries(f) ==
  LET mapped == MapFrom(f.heap, f.heap[f.sampledDrawing], f.heap[f.filtered],
                        1, <<>>)
  IN At([f EXCEPT !.heap = Append(mapped.heap, mapped.entries),
                  !.results = NewAddress(mapped.heap),
                  !.dtwCalls = CallLengths(f.heap[f.sampledDrawing],
                                           Deref(f.heap, f.filtered))], "326")

\* an entry of results with its address
Addressed(entry, address) ==
  [product |-> entry.product, category |-> entry.category, data |-> entry.data,
   similarity |-> entry.similarity, address |-> address]

AddressedEntries(heap, array) ==
  [i \in 1..Len(heap[array]) |-> Addressed(heap[heap[array][i]], heap[array][i])]

\* line 326: results.sort(...) orders the array results in place and
\* returns it
SortResults(f) ==
  {At([f EXCEPT !.heap[f.results] = [i \in 1..Len(sorted) |-> sorted[i].address]],
      "327") :
     sorted \in SortBySimilarity(AddressedEntries(f.heap, f.results))}

\* line 327: .slice(0, 10) returns a new array, sortedResults
SliceResults(f) ==
  At([f EXCEPT !.heap = Append(@, Slice(f.heap[f.results], topK)),
               !.sortedResults = NewAddress(f.heap)], "329")

\* line 329: setPatternResults(sortedResults)
SetPatternResults(f) ==
  At(SetState(f, "patternResults", Deref(f.heap, f.sortedResults)), "330")

\* a search that does not reset the flag
SearchingLeftSet(f) == At(f, "return")

\* line 330: setSearching(false); lines 333-335 scroll the page
SetSearchingFalse(f) == At(SetState(f, "searching", FALSE), "return")

\* the handler after its next statement; the sort has one outcome for each
\* order the doubles of the distances can have
Statement(f) ==
  CASE f.pc = "238" -> {SetIsDrawingFalse(f)}
    [] f.pc = "241" -> {TestStrokeLength(f)}
    [] f.pc = "272" -> {TestEmpty(f)}
    [] f.pc = "274" -> {SetSearchingTrue(f)}
    [] f.pc = "277" -> {NormalizeDrawing(f)}
    [] f.pc = "288" -> {ResampleDrawing(f)}
    [] f.pc = "292" -> {FilterSeries(f)}
    [] f.pc = "300" -> {MapSeries(f)}
    [] f.pc = "326" -> SortResults(f)
    [] f.pc = "327" -> {SliceResults(f)}
    [] f.pc = "329" -> {SetPatternResults(f)}
    [] f.pc = "330" -> {SetSearchingFalse(f)}

\* the handler when it returns
RECURSIVE RunFrom(_)
RunFrom(f) ==
  IF f.pc = "return" THEN {f}
  ELSE UNION {RunFrom(g) : g \in Statement(f)}

\* the state name after the updates of queue from i on, in the order of the
\* calls
RECURSIVE Reduce(_, _, _, _)
Reduce(queue, i, name, value) ==
  IF i > Len(queue) THEN value
  ELSE Reduce(queue, i + 1, name,
              IF queue[i].state = name THEN queue[i].value ELSE value)

\* the state name when React has applied the updates of the handler
StateFrom(f, name, value) == Reduce(f.queue, 1, name, value)

\* lines 237-244: endDrawing with the closure of the registered handlers
endDrawingOf(type, closure, corpus) ==
  RunFrom(Enter("endDrawing", type, "238", closure, corpus))

\* lines 271-336, as the onClick of the search button (line 675)
searchForMatchingPatterns(closure, corpus) ==
  RunFrom(Enter("searchButton", "click", "272", closure, corpus))

-----------------------------------------------------------------------------
(* The component: state, events and handlers                               *)

\* the records of one product, one for each month, of quantity sales[m] at
\* the price 1
ItemsOf(product, category, sales) ==
  [m \in 1..Len(sales) |-> Item(m, product, category, sales[m], 1)]

\* three products over three months.  Laptop has two records in the third
\* month; Shelf has no category and a single month with sales, and fails the
\* support filter
SmallData ==
  << Item(1, "Laptop", "Electronics", 1, 1),
     Item(2, "Laptop", "Electronics", 2, 1),
     Item(3, "Laptop", "Electronics", 1, 1),
     Item(3, "Laptop", "Electronics", 1, 2) >>
  \o ItemsOf("Desk", "Furniture", <<3, 1, 2>>)
  \o ItemsOf("Shelf", "", <<0, 0, 4>>)

\* one product sold in a single month
OneMonthData == ItemsOf("Laptop", "Electronics", <<7>>)

\* a product with a name that every object inherits
InheritedNameData == ItemsOf("constructor", "Tools", <<1, 2, 3>>)

\* the data props of the runs with gestures
GestureData == {<<>>, OneMonthData, SmallData, InheritedNameData}

\* canvas.getBoundingClientRect() (lines 208 and 219)
bounds == [left |-> 0, top |-> 0]

\* a mouse event has clientX and clientY and no touches
MouseEvent(cx, cy) == [clientX |-> cx, clientY |-> cy, touches |-> <<>>]

\* a touch event has touches and no clientX and clientY: undefined, which is
\* falsy as 0 is
TouchEvent(cx, cy) ==
  [clientX |-> 0, clientY |-> 0, touches |-> <<[clientX |-> cx, clientY |-> cy]>>]

\* lines 209-210 and 220-221: e.clientX || e.touches[0].clientX reads
\* e.touches[0] when e.clientX is 0 or undefined, a TypeError when the event
\* has no touches
ReadsMissingTouch(e) ==
  (e.clientX = 0 \/ e.clientY = 0) /\ Len(e.touches) = 0

ClientX(e) == IF e.clientX # 0 THEN e.clientX ELSE e.touches[1].clientX

ClientY(e) == IF e.clientY # 0 THEN e.clientY ELSE e.touches[1].clientY

\* lines 209-210 and 220-221
PositionOf(e) == Pt(ClientX(e) - bounds.left, ClientY(e) - bounds.top)

\* the pointer events of the runs with gestures: a stroke starts at one
\* place and moves to another, by mouse or by touch, and the mouse is at
\* the left edge of the viewport in one event of each kind
StartEvents == {MouseEvent(1, 2), TouchEvent(1, 2), MouseEvent(0, 2)}

MoveEvents == {MouseEvent(2, 1), TouchEvent(2, 1), MouseEvent(0, 2)}

\* the events that end a stroke (lines 249, 250, 255); touchend is handled
\* as mouseup is
EndEvents == {"mouseup", "mouseleave"}

\* mousemove, touchmove and mouseleave are continuous events: React renders
\* their state updates later and runs the effects of that render later
\* still, and another event can be handled before either.  The updates of
\* the other events (mousedown, mouseup, touchstart, touchend, click,
\* change) are rendered, with the updates still waiting, and the effects
\* run, before the next event.
ContinuousEvents == {"mousemove", "touchmove", "mouseleave"}

\* lines 42-47 (useMemo over data)
categories == CategoriesOf(data)

\* EnhancedDashboardView.jsx lines 48, 59 and 70: the tabs of the page
Tabs == {"interactive", "micro-macro", "pattern"}

NoCall == [fn |-> "none"]

NoLoop == [pc |-> "idle", divisors |-> {}]

NoError == "none"

\* the values a render of the state captures
State ==
  [isDrawing |-> isDrawing, drawingPoints |-> drawingPoints,
   selectedCategory |-> selectedCategory]

\* lines 13-18: the values the first render captures
InitialState ==
  [isDrawing |-> FALSE, drawingPoints |-> <<>>, selectedCategory |-> "All"]

\* lines 50-109: the useMemo callback threw in the first render of the
\* component; no error boundary is above it and React removes the page
Crashed == threw = "productMap[product].months"

\* EnhancedDashboardView.jsx lines 110-121: the component is rendered under
\* the pattern tab
Mounted == activeAdvancedTab = "pattern" /\ ~Crashed

\* lines 13-18; timeSeriesData is computed by the first render of the
\* component
InitComponent ==
  /\ drawingPoints = <<>>
  /\ isDrawing = FALSE
  /\ patternResults = <<>>
  /\ searching = FALSE
  /\ selectedCategory = "All"
  /\ rendered = State
  /\ handler = State
  /\ effectPending = FALSE
  /\ timeSeriesData = <<>>
  /\ stack = <<>>
  /\ lastEvent = "load"
  /\ searchRan = FALSE
  /\ dtwCalls = {}
  /\ threw = NoError
  /\ events = 0

\* EnhancedDashboardView.jsx line 17: the page opens on the interactive tab
Init ==
  /\ data \in GestureData
  /\ activeAdvancedTab = "interactive"
  /\ InitComponent
  /\ call = NoCall /\ returned = FALSE /\ ret = <<>>
  /\ loop = NoLoop

\* the event changed no state: nothing is rendered and no effect runs
NoRender == UNCHANGED <<rendered, handler, effectPending>>

\* the state after the event
StateAfter ==
  [isDrawing |-> isDrawing', drawingPoints |-> drawingPoints',
   selectedCategory |-> selectedCategory']

\* line 268: the deps of the effect differ between the last render and the
\* render of the state after the event; newArray says that the event set
\* drawingPoints to a new array
DepsChange(newArray) ==
  \/ newArray
  \/ isDrawing' # rendered.isDrawing
  \/ drawingPoints' # rendered.drawingPoints

\* lines 203-268 after a discrete event.  The state is rendered, with the
\* updates of earlier continuous events that were not rendered yet.  The
\* effect an earlier render left pending runs first, with the values of that
\* render; when isDrawing or drawingPoints changed the effect runs again and
\* the handlers capture the values of the new render
RenderedWithEffects(newArray) ==
  /\ rendered' = StateAfter
  /\ handler' = IF DepsChange(newArray) THEN StateAfter
                ELSE IF effectPending THEN rendered ELSE handler
  /\ effectPending' = FALSE

\* after a continuous event: the state waits for its render, the closures
\* of the last render stay and so do the registered handlers
RenderDeferred == UNCHANGED <<rendered, handler, effectPending>>

\* an event that runs no search
NoSearch ==
  /\ searchRan' = FALSE
  /\ dtwCalls' = {}
  /\ UNCHANGED <<timeSeriesData, patternResults, searching>>

\* an event is handled when no handler is running: JavaScript runs a handler
\* to its return before the next event is taken from the queue
Handled(name) ==
  /\ Mounted
  /\ stack = <<>>
  /\ events < MaxEvents
  /\ events' = events + 1
  /\ lastEvent' = name
  /\ UNCHANGED <<data, activeAdvancedTab, stack, call, returned, ret, loop>>

\* lines 13-18, with the timeSeriesData and the error of the first render,
\* or after the component is removed
ComponentReset(corpus, error) ==
  /\ drawingPoints' = <<>>
  /\ isDrawing' = FALSE
  /\ patternResults' = <<>>
  /\ searching' = FALSE
  /\ selectedCategory' = "All"
  /\ rendered' = InitialState
  /\ handler' = InitialState
  /\ effectPending' = FALSE
  /\ timeSeriesData' = corpus
  /\ threw' = error

\* EnhancedDashboardView.jsx lines 110-121 and lines 13-18 and 50-109: the
\* first render of the component
Mount ==
  IF ReadsMissingMonths(data)
  THEN ComponentReset(<<>>, "productMap[product].months")
  ELSE ComponentReset(TimeSeriesOf(data), NoError)

\* EnhancedDashboardView.jsx lines 110-121: the component is removed and its
\* state is lost
Unmount == ComponentReset(<<>>, NoError)

\* EnhancedDashboardView.jsx lines 48, 59 and 70: a tab button sets
\* activeAdvancedTab; the component is rendered under the pattern tab only
selectTab(tab) ==
  /\ ~Crashed
  /\ stack = <<>>
  /\ events < MaxEvents
  /\ events' = events + 1
  /\ lastEvent' = "selectTab"
  /\ activeAdvancedTab' = tab
  /\ searchRan' = FALSE
  /\ dtwCalls' = {}
  /\ UNCHANGED <<data, stack, call, returned, ret, loop>>
  /\ IF tab # activeAdvancedTab /\ tab = "pattern" THEN Mount
     ELSE IF tab # activeAdvancedTab /\ activeAdvancedTab = "pattern"
     THEN Unmount
     ELSE /\ threw' = NoError
          /\ UNCHANGED <<drawingPoints, isDrawing, patternResults, searching,
                         selectedCategory, rendered, handler, effectPending,
                         timeSeriesData>>

\* lines 207-214: mousedown, touchstart
startDrawing(e) ==
  /\ Handled("startDrawing")
  /\ NoSearch
  /\ UNCHANGED selectedCategory
  /\ IF ReadsMissingTouch(e)
     THEN /\ threw' = "e.touches[0]"
          /\ UNCHANGED <<isDrawing, drawingPoints>>
          /\ NoRender
     ELSE /\ threw' = NoError
          /\ isDrawing' = TRUE
          /\ drawingPoints' = <<PositionOf(e)>>
          /\ RenderedWithEffects(TRUE)

\* lines 216-235: mousemove, touchmove.  The handler reads the isDrawing and
\* the drawingPoints of its closure; the update of line 223 appends to the
\* state
draw(e) ==
  /\ Handled("draw")
  /\ NoSearch
  /\ UNCHANGED <<isDrawing, selectedCategory>>
  /\ IF ~handler.isDrawing
     THEN /\ threw' = NoError
          /\ UNCHANGED drawingPoints
          /\ NoRender
     ELSE IF ReadsMissingTouch(e)
     THEN /\ threw' = "e.touches[0]"
          /\ UNCHANGED drawingPoints
          /\ NoRender
     ELSE /\ drawingPoints' = Append(drawingPoints, PositionOf(e))
          \* line 227: prevPoint is undefined when the stroke of the closure
          \* is empty and line 232 reads prevPoint.x
          /\ threw' = IF Len(handler.drawingPoints) = 0 THEN "prevPoint.x"
                      ELSE NoError
          /\ RenderDeferred

\* the handler f has returned: React applies the updates it queued.  The
\* arrays of the heap are those of the program: timeSeriesData is the array
\* the useMemo holds, and drawingPoints is the array of the closure, the
\* state itself when the closure is of the last state (a closure that holds
\* an older stroke holds another array)
Commit(f) ==
  /\ isDrawing' = StateFrom(f, "isDrawing", isDrawing)
  /\ patternResults' = StateFrom(f, "patternResults", patternResults)
  /\ searching' = StateFrom(f, "searching", searching)
  /\ timeSeriesData' = Deref(f.heap, f.timeSeriesData)
  /\ drawingPoints' = IF f.closure.drawingPoints = drawingPoints
                      THEN f.heap[f.drawingPoints]
                      ELSE drawingPoints
  /\ searchRan' = (f.sortedResults # 0)
  /\ dtwCalls' = f.dtwCalls

\* the render after the handler f: that of a continuous event waits; that
\* of a discrete event happens when the handler changed state
RenderAfter(f) ==
  IF f.event \in ContinuousEvents THEN RenderDeferred
  ELSE IF isDrawing' # isDrawing \/ searchRan' THEN RenderedWithEffects(FALSE)
  ELSE NoRender

Returned(f) == Commit(f) /\ RenderAfter(f)

\* lines 237-244: mouseup, mouseleave, touchend.  The handler reads the
\* drawingPoints of its closure and runs the search of its closure
endDrawing(type) ==
  /\ Handled("endDrawing")
  /\ threw' = NoError
  /\ UNCHANGED selectedCategory
  /\ \E f \in endDrawingOf(type, handler, timeSeriesData) : Returned(f)

\* lines 674-678: the search button, enabled when the last render had 5
\* points and no search in progress
SearchEnabled == ~(Len(rendered.drawingPoints) < minDrawPoints \/ searching)

\* lines 674-678: the onClick of the search button is the search of the
\* last render
searchButton ==
  /\ Handled("searchButton")
  /\ SearchEnabled
  /\ threw' = NoError
  /\ UNCHANGED selectedCategory
  /\ \E f \in searchForMatchingPatterns(rendered, timeSeriesData) : Returned(f)

\* lines 417-431, the clear button (line 644)
clearDrawing ==
  /\ Handled("clearDrawing")
  /\ drawingPoints' = <<>>
  /\ patternResults' = <<>>
  /\ searchRan' = FALSE
  /\ dtwCalls' = {}
  /\ threw' = NoError
  /\ UNCHANGED <<timeSeriesData, isDrawing, searching, selectedCategory>>
  /\ RenderedWithEffects(TRUE)

\* lines 630-634: the category selector
selectCategory(c) ==
  /\ Handled("selectCategory")
  /\ selectedCategory' = c
  /\ threw' = NoError
  /\ NoSearch
  /\ UNCHANGED <<drawingPoints, isDrawing>>
  /\ IF c # selectedCategory THEN RenderedWithEffects(FALSE) ELSE NoRender

\* the updates of continuous events are rendered.  The effect an earlier
\* render left pending runs first, with the values of that render; isDrawing
\* or drawingPoints changed, so the effect of this render is pending
render ==
  /\ Mounted
  /\ stack = <<>>
  /\ State # rendered
  /\ rendered' = State
  /\ handler' = IF effectPending THEN rendered ELSE handler
  /\ effectPending' = TRUE
  /\ UNCHANGED <<data, activeAdvancedTab, timeSeriesData, stack,
                 drawingPoints, isDrawing, patternResults, searching,
                 selectedCategory, lastEvent, searchRan, dtwCalls, threw,
                 events, call, returned, ret, loop>>

\* lines 203-268: the effect of the last render runs; its cleanup removes
\* the handlers (lines 257-267) and the handlers of that render are
\* registered (lines 246-255)
runEffect ==
  /\ effectPending
  /\ stack = <<>>
  /\ handler' = rendered
  /\ effectPending' = FALSE
  /\ UNCHANGED <<data, activeAdvancedTab, timeSeriesData, stack,
                 drawingPoints, isDrawing, patternResults, searching,
                 selectedCategory, rendered, lastEvent, searchRan, dtwCalls,
                 threw, events, call, returned, ret, loop>>

Next ==
  \/ \E tab \in Tabs : selectTab(tab)
  \/ \E e \in StartEvents : startDrawing(e)
  \/ \E e \in MoveEvents : draw(e)
  \/ \E type \in EndEvents : endDrawing(type)
  \/ searchButton
  \/ clearDrawing
  \/ \E i \in 1..Len(categories) : selectCategory(categories[i])
  \/ render
  \/ runEffect

Spec == Init /\ [][Next]_vars

-----------------------------------------------------------------------------
(* The search as a function of the stroke, the corpus and the category     *)

\* twelve products over three months, more than topK, in two categories, with
\* products whose sales have the same shape.  The names of two products are
\* numerals, the larger one first.  The records of P12 name two categories;
\* P13 has no category in its first record and fails the support filter; one
\* record has a category and no product
\* Two of these series either have the same normalized curve, and then the
\* same distance to every stroke, or distances to every stroke of
\* SearchStrokes that are further apart than the rounding of the fixed-point
\* arithmetic and of the doubles of the code, so that both give one order.
LargeData ==
  ItemsOf("P01", "Electronics", <<1, 2, 3>>)
  \o ItemsOf("P02", "Furniture", <<3, 1, 2>>)
  \o ItemsOf("P03", "Electronics", <<2, 2, 2>>)
  \o ItemsOf("P04", "Furniture", <<1, 3, 0>>)
  \o ItemsOf("P05", "Electronics", <<3, 1, 2>>)
  \o ItemsOf("10", "Furniture", <<1, 2, 3>>)
  \o ItemsOf("P07", "Electronics", <<2, 4, 1>>)
  \o ItemsOf("P08", "Furniture", <<5, 5, 5>>)
  \o ItemsOf("9", "Electronics", <<2, 4, 6>>)
  \o ItemsOf("P10", "Furniture", <<3, 1, 4>>)
  \o ItemsOf("P11", "Electronics", <<0, 2, 4>>)
  \o << Item(1, "P12", "Furniture", 4, 1),
        Item(2, "P12", "Electronics", 1, 1),
        Item(3, "P12", "Electronics", 2, 1),
        Item(1, "P13", "", 0, 1),
        Item(2, "P13", "Toys", 0, 1),
        Item(3, "P13", "Toys", 9, 1),
        Item(2, "", "Office", 1, 1) >>

\* a series A constant at 10 and a series B rising linearly from 0, over 12
\* periods (B in steps of 100, so that its values are whole)
ScenarioData ==
  ItemsOf("A", "Electronics", [i \in 1..12 |-> 10])
  \o ItemsOf("B", "Electronics", [i \in 1..12 |-> 100 * (i - 1)])

SearchData == {<<>>, OneMonthData, SmallData, LargeData, ScenarioData}

\* where the pointer events of the searched strokes happen
SearchPositions == {Pt(1, 3), Pt(2, 2), Pt(3, 1)}

\* the strokes of minDrawPoints points
SearchStrokes == [1..minDrawPoints -> SearchPositions]

\* a stroke has been drawn, after the category was selected, and no search
\* has run
InitSearch ==
  /\ data \in SearchData
  /\ activeAdvancedTab = "pattern"
  /\ timeSeriesData = TimeSeriesOf(data)
  /\ stack = <<>>
  /\ drawingPoints \in SearchStrokes
  /\ isDrawing = TRUE
  /\ patternResults = <<>>
  /\ searching = FALSE
  /\ selectedCategory \in {CategoriesOf(data)[i] : i \in 1..Len(CategoriesOf(data))}
  /\ rendered = State
  /\ handler = State
  /\ effectPending = FALSE
  /\ lastEvent = "draw"
  /\ searchRan = FALSE
  /\ dtwCalls = {}
  /\ threw = NoError
  /\ events = 0
  /\ call = NoCall /\ returned = FALSE /\ ret = <<>>
  /\ loop = NoLoop

\* the search button is pressed once
NextSearch == lastEvent = "draw" /\ searchButton

SpecSearch == InitSearch /\ [][NextSearch]_vars

-----------------------------------------------------------------------------
(* The handlers that search, one statement at a time                       *)

\* the number of events of one run of the handlers
MaxRuns == 2

RunData == {<<>>, OneMonthData, SmallData}

\* a stroke that goes up, one that comes down, one that stays in one place,
\* and one of fewer than minDrawPoints points
RunStrokes ==
  {<<Pt(1, 3), Pt(1, 3), Pt(2, 2), Pt(3, 1), Pt(3, 1)>>,
   <<Pt(1, 1), Pt(2, 2), Pt(2, 2), Pt(3, 3), Pt(3, 3)>>,
   <<Pt(2, 2), Pt(2, 2), Pt(2, 2), Pt(2, 2), Pt(2, 2)>>,
   <<Pt(1, 3), Pt(2, 2), Pt(3, 1)>>}

\* a stroke has been drawn, after the category was selected, and no search
\* has run
InitRun ==
  /\ data \in RunData
  /\ activeAdvancedTab = "pattern"
  /\ timeSeriesData = TimeSeriesOf(data)
  /\ stack = <<>>
  /\ drawingPoints \in RunStrokes
  /\ isDrawing = TRUE
  /\ patternResults = <<>>
  /\ searching = FALSE
  /\ selectedCategory \in {CategoriesOf(data)[i] : i \in 1..Len(CategoriesOf(data))}
  /\ rendered = State
  /\ handler = State
  /\ effectPending = FALSE
  /\ lastEvent = "draw"
  /\ searchRan = FALSE
  /\ dtwCalls = {}
  /\ threw = NoError
  /\ events = 0
  /\ call = NoCall /\ returned = FALSE /\ ret = <<>>
  /\ loop = NoLoop

\* the event loop calls a handler when none is running
Dispatch(name, type, line, closure) ==
  /\ Mounted
  /\ stack = <<>>
  /\ events < MaxRuns
  /\ events' = events + 1
  /\ lastEvent' = name
  /\ stack' = <<Enter(name, type, line, closure, timeSeriesData)>>
  /\ searchRan' = FALSE
  /\ dtwCalls' = {}
  /\ threw' = NoError
  /\ UNCHANGED <<data, activeAdvancedTab, timeSeriesData, drawingPoints,
                 isDrawing, patternResults, searching, selectedCategory,
                 rendered, handler, effectPending, call, returned, ret, loop>>

\* lines 249, 250 and 255: mouseup, mouseleave or touchend on the canvas
DispatchEndDrawing(type) == Dispatch("endDrawing", type, "238", handler)

\* lines 674-678: a click on the enabled search button
DispatchSearchButton ==
  /\ SearchEnabled
  /\ Dispatch("searchButton", "click", "272", rendered)

\* the running handler executes its next statement
RunStatement ==
  /\ stack # <<>>
  /\ stack[1].pc # "return"
  /\ \E f \in Statement(stack[1]) : stack' = <<f>>
  /\ UNCHANGED <<data, activeAdvancedTab, timeSeriesData, drawingPoints,
                 isDrawing, patternResults, searching, selectedCategory,
                 rendered, handler, effectPending, lastEvent, searchRan,
                 dtwCalls, threw, events, call, returned, ret, loop>>

\* the running handler returns
Return ==
  /\ stack # <<>>
  /\ stack[1].pc = "return"
  /\ stack' = <<>>
  /\ UNCHANGED <<data, activeAdvancedTab, selectedCategory, lastEvent, threw,
                 events, call, returned, ret, loop>>
  /\ Returned(stack[1])

\* the events of the other handlers, each handled in one step
OtherEvent ==
  /\ events < MaxRuns
  /\ \/ \E e \in MoveEvents : draw(e)
     \/ clearDrawing
     \/ \E i \in 1..Len(categories) : selectCategory(categories[i])

NextRun ==
  \/ \E type \in EndEvents : DispatchEndDrawing(type)
  \/ DispatchSearchButton
  \/ RunStatement
  \/ Return
  \/ OtherEvent
  \/ render
  \/ runEffect

SpecRun == InitRun /\ [][NextRun]_vars

-----------------------------------------------------------------------------
(* The pure functions, each applied to arguments of bounded sets           *)

\* the longest curve passed to a function, in points
MaxCurve == 3

SeqsUpTo(S, maxLen) == UNION {[1..k -> S] : k \in 0..maxLen}

\* curves of the unit square
UnitPoints == {Pt(px, py) : px \in {0, Unit \div 2, Unit}, py \in {0, Unit}}

\* the values of n
SampleCounts == {2, 3, 5, numSamplePoints}

ResampleCalls ==
  {[fn |-> "resampleCurve", points |-> c, n |-> n] :
     c \in SeqsUpTo(UnitPoints, MaxCurve), n \in SampleCounts}

\* curves of four amplitudes
LevelPoints == {Pt(0, (k * Unit) \div 3) : k \in 0..3}

DTWCalls ==
  {[fn |-> "calculateDTWSimilarity", a |-> a, b |-> b] :
     a \in SeqsUpTo(LevelPoints, MaxCurve), b \in SeqsUpTo(LevelPoints, MaxCurve)}

\* strokes of minDrawPoints points, in canvas pixels
PixelPoints == {Pt(px, py) : px \in 1..2, py \in 1..2}

NormalizedDrawingCalls ==
  {[fn |-> "normalizedDrawing", points |-> c] :
     c \in [1..minDrawPoints -> PixelPoints]}

\* the sales of a series
NormalizedSeriesCalls ==
  {[fn |-> "normalizedSeries", values |-> v] :
     v \in SeqsUpTo(0..2, MaxCurve) \ {<<>>}}

\* the longest shared period axis, in periods
MaxPeriods == 11

\* the sales of one product over n periods: positive in the first pos,
\* negative in the next neg, zero in the others
SalesOf(n, pos, neg) ==
  [i \in 1..n |-> IF i <= pos THEN 2 ELSE IF i <= pos + neg THEN -1 ELSE 0]

\* names of products: a word, two numerals and an inherited name
ProductNames == {"Laptop", "10", "9", "constructor"}

\* the records of one product, and those of two products of the same or of
\* different names
TimeSeriesDataCalls ==
  {[fn |-> "timeSeriesData",
    data |-> ItemsOf("Laptop", "Electronics", SalesOf(n, pos, neg))] :
     n \in 1..MaxPeriods, pos \in 0..MaxPeriods, neg \in 0..1}
  \cup
  {[fn |-> "timeSeriesData",
    data |-> ItemsOf(first, "Electronics", <<1, 2, 3>>)
             \o ItemsOf(second, "Furniture", <<3, 1, 2>>)] :
     first \in ProductNames, second \in ProductNames}

\* two rising series of one normalized curve and a falling one, its mirror
\* image
MirrorData ==
  ItemsOf("K", "Electronics", <<1, 2, 3>>)
  \o ItemsOf("J", "Electronics", <<2, 4, 6>>)
  \o ItemsOf("I", "Electronics", <<3, 2, 1>>)

\* a stroke that stays in one place and a stroke that goes up and comes
\* back, as far from a curve as from its mirror image but for the rounding,
\* and a stroke that goes up
MirrorStrokes ==
  {<<Pt(2, 1), Pt(2, 1), Pt(2, 1), Pt(2, 1), Pt(2, 1)>>,
   <<Pt(1, 3), Pt(2, 2), Pt(3, 1), Pt(2, 2), Pt(1, 3)>>,
   <<Pt(1, 3), Pt(2, 2), Pt(3, 1), Pt(4, 1), Pt(5, 1)>>}

SortedResultsCalls ==
  {[fn |-> "sortedResults", points |-> c, data |-> MirrorData] :
     c \in MirrorStrokes}

InitCurve ==
  /\ data = <<>>
  /\ activeAdvancedTab = "pattern"
  /\ InitComponent
  /\ call \in ResampleCalls \cup DTWCalls \cup NormalizedDrawingCalls
                \cup NormalizedSeriesCalls \cup TimeSeriesDataCalls
                \cup SortedResultsCalls
  /\ returned = FALSE
  /\ ret = <<>>
  /\ loop = NoLoop

Returns(value) ==
  /\ ~returned
  /\ returned' = TRUE
  /\ ret' = value
  /\ threw' = NoError
  /\ UNCHANGED <<data, activeAdvancedTab, timeSeriesData, stack,
                 drawingPoints, isDrawing, patternResults, searching,
                 selectedCategory, rendered, handler, effectPending,
                 lastEvent, searchRan, dtwCalls, events, call, loop>>

CallResampleCurve ==
  /\ call.fn = "resampleCurve"
  /\ Returns(resampleCurve(call.points, call.n))

CallCalculateDTWSimilarity ==
  /\ call.fn = "calculateDTWSimilarity"
  /\ Returns(calculateDTWSimilarity(call.a, call.b))

CallNormalizedDrawing ==
  /\ call.fn = "normalizedDrawing"
  /\ Returns(NormalizedDrawing(call.points))

CallNormalizedSeries ==
  /\ call.fn = "normalizedSeries"
  /\ Returns(NormalizedSeries(call.values))

\* the call throws and does not return
Throws(expression) ==
  /\ ~returned
  /\ threw' = expression
  /\ UNCHANGED <<data, activeAdvancedTab, timeSeriesData, stack,
                 drawingPoints, isDrawing, patternResults, searching,
                 selectedCategory, rendered, handler, effectPending,
                 lastEvent, searchRan, dtwCalls, events, call, returned, ret,
                 loop>>

\* lines 50-109
CallTimeSeriesData ==
  /\ call.fn = "timeSeriesData"
  /\ IF ReadsMissingMonths(call.data)
     THEN Throws("productMap[product].months")
     ELSE Returns(TimeSeriesOf(call.data))

\* lines 325-327
CallSortedResults ==
  /\ call.fn = "sortedResults"
  /\ \E sorted \in SortedResults(call.points, TimeSeriesOf(call.data), "All") :
        Returns(sorted)

NextCurve ==
  \/ CallResampleCurve
  \/ CallCalculateDTWSimilarity
  \/ CallNormalizedDrawing
  \/ CallNormalizedSeries
  \/ CallTimeSeriesData
  \/ CallSortedResults

SpecCurve == InitCurve /\ [][NextCurve]_vars

-----------------------------------------------------------------------------
(* resampleCurve, one loop iteration at a time                             *)

\* the corners of the curves resampled step by step
CornerPoints == {Pt(0, 0), Pt(Unit, 0), Pt(Unit, Unit)}

LoopCalls ==
  {[fn |-> "resampleCurve", points |-> c, n |-> n] :
     c \in SeqsUpTo(CornerPoints, MaxCurve), n \in {2, 3, numSamplePoints}}

InitResample ==
  /\ data = <<>>
  /\ activeAdvancedTab = "pattern"
  /\ InitComponent
  /\ call \in LoopCalls
  /\ returned = FALSE
  /\ ret = <<>>
  /\ loop = [pc |-> "start", divisors |-> {}]

ComponentUnchanged ==
  UNCHANGED <<data, activeAdvancedTab, timeSeriesData, stack,
              drawingPoints, isDrawing, patternResults, searching,
              selectedCategory, rendered, handler, effectPending, lastEvent,
              searchRan, dtwCalls, threw, events, call>>

\* lines 340-358: the early return, the path length, the division by n - 1
\* and the locals of the loops
ResampleEnter ==
  /\ loop.pc = "start"
  /\ IF Len(call.points) <= 1
     THEN /\ returned' = TRUE
          /\ ret' = call.points
          /\ loop' = [pc |-> "done", divisors |-> {}]
     ELSE /\ loop' = [pc |-> "for", i |-> 1, cd |-> 0, prev |-> call.points[1],
                      idx |-> 2, result |-> <<call.points[1]>>,
                      pathLength |-> PathLength(call.points),
                      divisors |-> {call.n - 1}]
          /\ UNCHANGED <<returned, ret>>
  /\ ComponentUnchanged

\* line 360: the test of the for loop; lines 386-387 when it fails
ResampleFor ==
  /\ loop.pc = "for"
  /\ IF loop.i < call.n - 1
     THEN /\ loop' = [loop EXCEPT !.pc = "while"]
          /\ UNCHANGED <<returned, ret>>
     ELSE /\ returned' = TRUE
          /\ ret' = Append(loop.result, call.points[Len(call.points)])
          /\ loop' = [loop EXCEPT !.pc = "done"]
  /\ ComponentUnchanged

\* lines 364-383: the test of the while loop and one pass of its body; the
\* break and the failed test go on with the next i
ResampleWhile ==
  /\ loop.pc = "while"
  /\ LET targetDistance == TargetDistance(loop.i, loop.pathLength, call.n)
     IN IF Advancing(loop.cd, targetDistance, loop.idx, call.points)
        THEN LET nextPoint == call.points[loop.idx]
                 dx == nextPoint.x - loop.prev.x
                 dy == nextPoint.y - loop.prev.y
                 segmentLength == Hypot(dx, dy)
             IN IF loop.cd + segmentLength >= targetDistance
                THEN loop' = [loop EXCEPT
                                !.result = Append(@, Interpolate(loop.prev,
                                              targetDistance - loop.cd,
                                              segmentLength, dx, dy)),
                                !.divisors = @ \cup {segmentLength},
                                !.i = @ + 1,
                                !.pc = "for"]
                ELSE loop' = [loop EXCEPT !.cd = @ + segmentLength,
                                          !.prev = nextPoint,
                                          !.idx = @ + 1]
        ELSE loop' = [loop EXCEPT !.i = @ + 1, !.pc = "for"]
  /\ UNCHANGED <<returned, ret>>
  /\ ComponentUnchanged

NextResample ==
  \/ ResampleEnter
  \/ ResampleFor
  \/ ResampleWhile

\* the function runs to its end once called: JavaScript runs it without
\* interruption
SpecResample == InitResample /\ [][NextResample]_vars /\ WF_vars(NextResample)

-----------------------------------------------------------------------------
(* Properties                                                              *)

ResampleReturned == returned /\ call.fn = "resampleCurve"

\* the step handles the event called name
EventHandled(name) == events' = events + 1 /\ lastEvent' = name

DTWReturned == returned /\ call.fn = "calculateDTWSimilarity"

AllCoincide(points) == \A i \in 1..Len(points) : points[i] = points[1]

\* C1: resampleCurve(points, n) returns exactly n points for every curve of
\* at least 2 points and every n >= 2; for a curve whose points all coincide
\* it returns n copies of that point.
C1_ResampleReturnsN ==
  (ResampleReturned /\ Len(call.points) >= 2) =>
     /\ Len(ret) = call.n
     /\ AllCoincide(call.points) =>
          ret = [i \in 1..call.n |-> call.points[1]]

\* C2: every DTW comparison issued by a search passes two curves of the same
\* length, both of numSamplePoints points.
C2_DTWCallsOfEqualLength ==
  \A lengths \in dtwCalls :
     lengths[1] = numSamplePoints /\ lengths[2] = numSamplePoints

\* C3: when a gesture ends with a stroke of fewer than 5 points, the search
\* does not run, no error is raised, and patternResults is empty afterwards.
C3_ShortStrokeLeavesNoMatches ==
  (lastEvent = "endDrawing" /\ Len(drawingPoints) < minDrawPoints) =>
     ~searchRan /\ threw = NoError /\ patternResults = <<>>

\* C4: a search returns at most topK results, sorted by non-decreasing
\* similarity (DTW distance).
C4_AtMostTopKSorted ==
  searchRan =>
     /\ Len(patternResults) <= topK
     /\ \A i \in 1..(Len(patternResults) - 1) :
          patternResults[i].similarity <= patternResults[i + 1].similarity

\* a search cut the list to topK, and the list holds different distances
C4_Witness ==
  /\ searchRan
  /\ Len(FilterByCategory(timeSeriesData, selectedCategory)) > topK
  /\ Len(patternResults) = topK
  /\ patternResults[1].similarity < patternResults[topK].similarity

\* the place of entry i in the stable ascending order of scored: after the
\* entries of smaller similarity and the earlier entries of equal similarity
RankOf(scored, i) ==
  1 + Cardinality({j \in 1..Len(scored) :
        \/ scored[j].similarity < scored[i].similarity
        \/ scored[j].similarity = scored[i].similarity /\ j < i})

Ranked(scored) ==
  [k \in 1..Min2(topK, Len(scored)) |->
     scored[CHOOSE i \in 1..Len(scored) : RankOf(scored, i) = k]]

\* C5: the result of a search is the first topK entries of the stable
\* ascending sort by similarity of the eligible series of the selected
\* category: min(topK, eligible) entries, none omitted that has a smaller
\* distance than a returned one, equal distances in corpus order.
C5_FirstTopKOfStableSort ==
  searchRan =>
     patternResults =
       Ranked(ScoredResults(drawingPoints, timeSeriesData, selectedCategory))

\* a search ranked more than topK series, two of them at the same distance
C5_Witness ==
  /\ searchRan
  /\ Len(FilterByCategory(timeSeriesData, selectedCategory)) > topK
  /\ \E i \in 1..(Len(patternResults) - 1) :
       /\ patternResults[i].similarity = patternResults[i + 1].similarity
       /\ patternResults[i].product # patternResults[i + 1].product
  /\ patternResults[1].similarity < patternResults[Len(patternResults)].similarity

\* C6: calculateDTWSimilarity(x, x) = 0 for every non-empty curve x.
C6_ScoreOfCurveWithItselfIsZero ==
  (DTWReturned /\ call.a = call.b /\ Len(call.a) >= 1) => ret = 0

\* a curve of MaxCurve points of different amplitudes was scored with itself
C6_Witness ==
  /\ DTWReturned
  /\ call.a = call.b
  /\ Len(call.a) = MaxCurve
  /\ call.a[1].y # call.a[2].y

\* C7: calculateDTWSimilarity(a, b) = calculateDTWSimilarity(b, a) for every
\* pair of curves.
C7_ScoreIsSymmetric ==
  DTWReturned => ret = calculateDTWSimilarity(call.b, call.a)

\* two curves of different lengths and a positive finite score
C7_Witness ==
  /\ DTWReturned
  /\ Len(call.a) >= 2
  /\ Len(call.b) > Len(call.a)
  /\ ret > 0
  /\ ret < Infinity

\* the cost of aligning a[i] with b[i], for curves of one length
RECURSIVE AlignedCostFrom(_, _, _)
AlignedCostFrom(a, b, i) ==
  IF i > Len(a) THEN 0
  ELSE (IF a[i].y >= b[i].y THEN a[i].y - b[i].y ELSE b[i].y - a[i].y)
       + AlignedCostFrom(a, b, i + 1)

AlignedCost(a, b) == AlignedCostFrom(a, b, 1)

\* c has every Y value strictly closer to the Y value of a than b has
StrictlyCloser(a, c, b) ==
  /\ Len(c) = Len(b)
  /\ \A i \in 1..Len(b) :
       AlignedCost(<<a[i]>>, <<c[i]>>) < AlignedCost(<<a[i]>>, <<b[i]>>)

\* the curves that b can be replaced by
Closer(a, b) ==
  {c \in [1..Len(b) -> LevelPoints] : StrictlyCloser(a, c, b)}

\* the curves that b can be the replacement of
Farther(a, b) ==
  {f \in [1..Len(b) -> LevelPoints] : StrictlyCloser(a, b, f)}

\* C8, as claimed: for curves a and b of equal length, replacing every Y value
\* of b by a value strictly closer to the Y value of a strictly decreases
\* calculateDTWSimilarity(a, b).
C8_CloserStrictlyDecreases ==
  (DTWReturned /\ Len(call.a) = Len(call.b) /\ Len(call.a) >= 1) =>
     \A c \in Closer(call.a, call.b) :
        calculateDTWSimilarity(call.a, c) < ret

\* C8, amended: for curves a and b of equal length (at least 1), after every
\* Y value of b is replaced by a value strictly closer to the Y value of a,
\* calculateDTWSimilarity is strictly smaller than the index-aligned cost
\* sum |a[i].y - b[i].y| of the original b.  (The call of the state is the
\* one with the replacement; f ranges over the originals.)
C8_CloserIsBelowAlignedCost ==
  (DTWReturned /\ Len(call.a) = Len(call.b) /\ Len(call.a) >= 1) =>
     \A f \in Farther(call.a, call.b) : ret < AlignedCost(call.a, f)

\* a replacement of a farther curve was scored, and warping made its score
\* smaller than its own aligned cost
C8_Witness ==
  /\ DTWReturned
  /\ Len(call.a) = Len(call.b)
  /\ Len(call.a) = MaxCurve
  /\ Farther(call.a, call.b) # {}
  /\ ret > 0
  /\ ret < AlignedCost(call.a, call.b)

Least(S) == CHOOSE v \in S : \A w \in S : v <= w

\* table is the table of the claim for the curves a and b
IsDTWTable(table, a, b) ==
  /\ Len(table) = Len(a) + 1
  /\ \A i \in 0..Len(a) : Len(table[i + 1]) = Len(b) + 1
  /\ table[1][1] = 0
  /\ \A j \in 1..Len(b) : table[1][j + 1] = Infinity
  /\ \A i \in 1..Len(a) : table[i + 1][1] = Infinity
  /\ \A i \in 1..Len(a) : \A j \in 1..Len(b) :
       table[i + 1][j + 1] =
         IF Least({table[i][j + 1], table[i + 1][j], table[i][j]}) = Infinity
         THEN Infinity
         ELSE AlignedCost(<<a[i]>>, <<b[j]>>)
              + Least({table[i][j + 1], table[i + 1][j], table[i][j]})

\* the curve with every X coordinate moved, by a different amount per point
MoveX(curve, k) ==
  [i \in 1..Len(curve) |-> Pt(curve[i].x + k * i * i, curve[i].y)]

\* C9: calculateDTWSimilarity returns dtw[n][m] of the table with
\* dtw[0][0] = 0, the other border cells Infinity and dtw[i][j] =
\* |a[i].y - b[j].y| + min(dtw[i-1][j], dtw[i][j-1], dtw[i-1][j-1]); the
\* result is non-negative and does not depend on the X coordinates.
C9_ScoreIsTheTableCell ==
  DTWReturned =>
     /\ IsDTWTable(DTWTable(call.a, call.b), call.a, call.b)
     /\ ret = DTWTable(call.a, call.b)[Len(call.a) + 1][Len(call.b) + 1]
     /\ ret >= 0
     /\ \A k \in {1, Unit \div 4} : \A l \in {0, Unit \div 2} :
          calculateDTWSimilarity(MoveX(call.a, k), MoveX(call.b, l)) = ret

\* two curves of MaxCurve points were scored, with a positive finite score
C9_Witness ==
  /\ DTWReturned
  /\ Len(call.a) = MaxCurve
  /\ Len(call.b) = MaxCurve
  /\ ret > 0
  /\ ret < Infinity
  /\ ret < AlignedCost(call.a, call.b)

\* the values of one axis are normalized as the claim says: to 0 when the
\* range is zero, else by a linear map into [0, 1]
NormalizedAsClaimed(values, outs) ==
  IF MathMax(values) = MathMin(values)
  THEN \A i \in 1..Len(values) : outs[i] = 0
  ELSE \/ \A i \in 1..Len(values) :
            outs[i] = Ratio(values[i] - MathMin(values),
                            MathMax(values) - MathMin(values))
       \/ \A i \in 1..Len(values) :
            outs[i] = Unit - Ratio(values[i] - MathMin(values),
                                   MathMax(values) - MathMin(values))

\* C10: during normalization of the stroke and of each series, an axis whose
\* source range is zero has every value mapped to 0; any other axis is
\* linearly rescaled to [0, 1].
C10_ZeroRangeAxisMapsToZero ==
  /\ (returned /\ call.fn = "normalizedDrawing") =>
        /\ NormalizedAsClaimed(Xs(call.points), Xs(ret))
        /\ NormalizedAsClaimed(Ys(call.points), Ys(ret))
  /\ (returned /\ call.fn = "normalizedSeries") =>
        /\ NormalizedAsClaimed(call.values, Ys(ret))
        /\ NormalizedAsClaimed([i \in 1..Len(call.values) |-> i - 1], Xs(ret))

NormalizedSeriesReturned == returned /\ call.fn = "normalizedSeries"

NormalizedDrawingReturned == returned /\ call.fn = "normalizedDrawing"

\* no coordinate of the curve is NaN
NoNaN(curve) ==
  \A i \in 1..Len(curve) : curve[i].x # NaN /\ curve[i].y # NaN

\* C11: for a series whose values are all identical, for every period count
\* including a single period, the normalized series is flat at Y = 0 and no
\* coordinate of the normalized or of the resampled series is NaN.
C11_FlatSeriesIsFlatWithoutNaN ==
  (NormalizedSeriesReturned /\ MathMax(call.values) = MathMin(call.values)) =>
     /\ \A i \in 1..Len(ret) : ret[i].y = 0
     /\ NoNaN(ret)
     /\ NoNaN(resampleCurve(ret, numSamplePoints))

\* a coordinate of the unit interval
InUnitInterval(v) == v # NaN /\ 0 <= v /\ v <= Unit

\* an axis whose source range is not zero reaches 0 and 1
ReachesBothEnds(values, outs) ==
  MathMax(values) # MathMin(values) =>
     /\ \E i \in 1..Len(outs) : outs[i] = 0
     /\ \E i \in 1..Len(outs) : outs[i] = Unit

\* the period indexes 0 .. n-1 of a series of n periods
PeriodIndexes(values) == [i \in 1..Len(values) |-> i - 1]

\* C12: the normalized stroke and the normalized series have every coordinate
\* in [0, 1], and an axis whose source range is not zero has a point at 0 and
\* a point at 1.
C12_NormalizedInUnitSquare ==
  /\ NormalizedDrawingReturned =>
        /\ \A i \in 1..Len(ret) :
             InUnitInterval(ret[i].x) /\ InUnitInterval(ret[i].y)
        /\ ReachesBothEnds(Xs(call.points), Xs(ret))
        /\ ReachesBothEnds(Ys(call.points), Ys(ret))
  /\ NormalizedSeriesReturned =>
        /\ \A i \in 1..Len(ret) :
             InUnitInterval(ret[i].x) /\ InUnitInterval(ret[i].y)
        /\ ReachesBothEnds(call.values, Ys(ret))
        /\ ReachesBothEnds(PeriodIndexes(call.values), Xs(ret))

\* the number of series of the searchable corpus with the category label
CountOfCategory(corpus, category) ==
  Cardinality({i \in 1..Len(corpus) : corpus[i].category = category})

\* C13: with a selected category other than 'All', a search returns only
\* series of exactly that category, as many as topK allows, hence none when
\* no eligible series has it; with 'All' no series is left out by category.
C13_OnlySelectedCategory ==
  searchRan =>
     IF selectedCategory # "All"
     THEN /\ \A i \in 1..Len(patternResults) :
               patternResults[i].category = selectedCategory
          /\ Len(patternResults) =
               Min2(topK, CountOfCategory(timeSeriesData, selectedCategory))
     ELSE Len(patternResults) = Min2(topK, Len(timeSeriesData))

\* a search with a selected category left out series of the other categories
C13_Witness ==
  /\ searchRan
  /\ selectedCategory # "All"
  /\ Len(patternResults) > 0
  /\ Len(patternResults) < Min2(topK, Len(timeSeriesData))

TimeSeriesDataReturned == returned /\ call.fn = "timeSeriesData"

\* the number of periods of the series with a value other than zero
NonZeroCount(sales) ==
  Cardinality({i \in 1..Len(sales) : sales[i] # 0})

\* C14: a series is in the searchable corpus if and only if the number of
\* its periods with a non-zero value is at least min(5, periodCount / 2).
C14_SupportCountsNonZeroPeriods ==
  TimeSeriesDataReturned =>
     \A i \in 1..Len(ResultOf(call.data)) :
        (\E k \in 1..Len(ret) : ret[k] = ResultOf(call.data)[i])
          <=> 2 * NonZeroCount(ResultOf(call.data)[i].data)
                >= Min2(2 * 5, Len(AllMonths(GroupedItems(call.data))))

\* clamp(lo, hi, v)
Clamp(lo, hi, v) == IF v < lo THEN lo ELSE IF v > hi THEN hi ELSE v

\* 100 - 20 * dtwDistance clamped to [0, 100], in fixed point
ClampedQuality(similarity) == Clamp(0, 100 * Unit, 100 * Unit - 20 * similarity)

\* C15, as claimed: the match quality shown for a result equals
\* 100 - 20 * dtwDistance clamped to [0, 100]; it never leaves [0, 100] and
\* never increases when the distance increases.
C15_ShownQualityIsClamped ==
  \A i \in 1..Len(patternResults) :
     /\ MatchQualityShown(patternResults[i].similarity) * Unit
          = ClampedQuality(patternResults[i].similarity)
     /\ MatchQualityShown(patternResults[i].similarity) \in 0..100
     /\ \A j \in 1..Len(patternResults) :
          patternResults[i].similarity <= patternResults[j].similarity =>
             MatchQualityShown(patternResults[i].similarity)
               >= MatchQualityShown(patternResults[j].similarity)

\* C15, amended: the match quality shown for a result is
\* 100 - 20 * dtwDistance clamped to [0, 100] and rounded to the nearest
\* whole number (the larger of two); it never leaves [0, 100] and never
\* increases when the distance increases.
C15_ShownQualityIsClampedAndRounded ==
  \A i \in 1..Len(patternResults) :
     /\ 2 * MatchQualityShown(patternResults[i].similarity) * Unit
          <= 2 * ClampedQuality(patternResults[i].similarity) + Unit
     /\ 2 * MatchQualityShown(patternResults[i].similarity) * Unit
          > 2 * ClampedQuality(patternResults[i].similarity) - Unit
     /\ MatchQualityShown(patternResults[i].similarity) \in 0..100
     /\ \A j \in 1..Len(patternResults) :
          patternResults[i].similarity <= patternResults[j].similarity =>
             MatchQualityShown(patternResults[i].similarity)
               >= MatchQualityShown(patternResults[j].similarity)

\* the results shown hold a perfect match, a match whose quality is not a
\* whole number and a match clamped to 0
C15_Witness ==
  /\ searchRan
  /\ \E i \in 1..Len(patternResults) :
       MatchQualityShown(patternResults[i].similarity) = 100
  /\ \E i \in 1..Len(patternResults) :
       /\ MatchQualityShown(patternResults[i].similarity) \in 1..99
       /\ MatchQualityShown(patternResults[i].similarity) * Unit
            # ClampedQuality(patternResults[i].similarity)
  /\ \E i \in 1..Len(patternResults) :
       /\ 20 * patternResults[i].similarity > 100 * Unit
       /\ MatchQualityShown(patternResults[i].similarity) = 0

\* C16: a search leaves the corpus (the array timeSeriesData: its order, its
\* series and their values) and the stroke (the array drawingPoints) as they
\* were; it replaces the result list only.
C16_SearchKeepsCorpusAndStroke ==
  [][searchRan' =>
       /\ data' = data
       /\ timeSeriesData' = timeSeriesData
       /\ drawingPoints' = drawingPoints
       /\ selectedCategory' = selectedCategory]_vars

\* a search has left out series of the corpus and put another series first
\* than the corpus has
C16_Witness ==
  /\ searchRan
  /\ Len(patternResults) > 1
  /\ Len(patternResults) < Min2(topK, Len(timeSeriesData))
  /\ patternResults[1].product
       # FilterByCategory(timeSeriesData, selectedCategory)[1].product

\* C17: for every curve of at least 2 points, the first point returned by
\* resampleCurve is the first input point and the last returned point is the
\* last input point.
C17_ResampleKeepsEndpoints ==
  (ResampleReturned /\ Len(call.points) >= 2) =>
     /\ ret[1] = call.points[1]
     /\ ret[Len(ret)] = call.points[Len(call.points)]

\* a curve was resampled to numSamplePoints points, its ends apart, and the
\* last sample added by the loop is not the last input point
C17_Witness ==
  /\ ResampleReturned
  /\ Len(call.points) = MaxCurve
  /\ call.points[1] # call.points[Len(call.points)]
  /\ Len(ret) = numSamplePoints
  /\ ret[Len(ret) - 1] # call.points[Len(call.points)]
  /\ ret[2] # call.points[1]

\* no division made so far had a zero divisor
NoDivisionByZero == 0 \notin loop.divisors

ResampleDone == returned /\ loop.pc = "done"

\* C18: resampleCurve terminates for every input and every n >= 2 and never
\* divides by zero, also when the path length is 0 or consecutive input
\* points coincide.
C18_ResampleTerminatesWithoutDivisionByZero ==
  []NoDivisionByZero /\ <>ResampleDone

\* a curve with two consecutive points at one place and a positive length
\* was resampled to numSamplePoints points, with a division per sample
C18_Witness ==
  /\ ResampleDone
  /\ Len(call.points) = MaxCurve
  /\ call.points[1] = call.points[2]
  /\ call.points[2] # call.points[3]
  /\ call.n = numSamplePoints
  /\ Cardinality(loop.divisors) >= 2
  /\ ret = resampleCurve(call.points, call.n)
  /\ Len(ret) = numSamplePoints

\* the stroke is a straight line that rises on the canvas from left to
\* right: its points lie on the line through its ends, in order, and its last
\* point is to the right of and above the first (canvas Y grows downward)
RisingLine(points) ==
  /\ Len(points) >= 2
  /\ points[1].x < points[Len(points)].x
  /\ points[1].y > points[Len(points)].y
  /\ \A i \in 1..(Len(points) - 1) :
       /\ points[i].x <= points[i + 1].x
       /\ points[i].y >= points[i + 1].y
  /\ \A i \in 1..Len(points) :
       (points[i].x - points[1].x) * (points[Len(points)].y - points[1].y)
         = (points[i].y - points[1].y) * (points[Len(points)].x - points[1].x)

\* C19: with the corpus of a series A constant over 12 periods and a series
\* B rising linearly over 12 periods, a search with a straight rising stroke
\* gives B a strictly lower distance than A and ranks B before A.
C19_RisingStrokeRanksRisingSeriesFirst ==
  (searchRan /\ data = ScenarioData /\ RisingLine(drawingPoints)) =>
     /\ Len(patternResults) = 2
     /\ patternResults[1].product = "B"
     /\ patternResults[2].product = "A"
     /\ patternResults[1].similarity < patternResults[2].similarity

\* the two series were searched with a rising stroke that stays at a place
\* for some moves, and both were scored over numSamplePoints points
C19_Witness ==
  /\ searchRan
  /\ data = ScenarioData
  /\ RisingLine(drawingPoints)
  /\ drawingPoints[2] = drawingPoints[3]
  /\ dtwCalls = {<<numSamplePoints, numSamplePoints>>}
  /\ Len(patternResults) = 2
  /\ patternResults[2].similarity > 5 * Unit

\* C20: every normalized curve built by the search, of the stroke and of a
\* series, has X coordinates in [0, 1] that never decrease along the
\* sequence, and Y coordinates in [0, 1].
C20_NormalizedXNeverDecreases ==
  (NormalizedDrawingReturned \/ NormalizedSeriesReturned) =>
     /\ \A i \in 1..Len(ret) :
          InUnitInterval(ret[i].x) /\ InUnitInterval(ret[i].y)
     /\ \A i \in 1..(Len(ret) - 1) : ret[i].x <= ret[i + 1].x

\* C21: of two stroke points, the one with the smaller canvas Y gets the
\* larger (or equal) normalized Y; of two periods of a series, the one with
\* the larger value gets the larger (or equal) normalized Y.
C21_StrokeYInvertedSeriesYNot ==
  /\ NormalizedDrawingReturned =>
        \A i \in 1..Len(ret) : \A j \in 1..Len(ret) :
           call.points[i].y < call.points[j].y => ret[i].y >= ret[j].y
  /\ NormalizedSeriesReturned =>
        \A i \in 1..Len(ret) : \A j \in 1..Len(ret) :
           call.values[i] > call.values[j] => ret[i].y >= ret[j].y

\* a stroke with points at two heights was normalized: the upper point of
\* the canvas is at the top of the unit square, the lower one at the bottom
C21_Witness ==
  /\ NormalizedDrawingReturned
  /\ \E i \in 1..Len(ret) : \E j \in 1..Len(ret) :
       /\ call.points[i].y < call.points[j].y
       /\ ret[i].y = Unit
       /\ ret[j].y = 0

\* C22: pointer-move events never run a search and never change the result
\* list; a search runs only when a stroke ends (an end event while a stroke
\* is in progress) or when the search button is pressed.
C22_SearchOnlyAtStrokeEndOrButton ==
  [][/\ EventHandled("draw") =>
          ~searchRan' /\ patternResults' = patternResults
     /\ (events' = events + 1 /\ searchRan') =>
          \/ lastEvent' = "searchButton"
          \/ lastEvent' = "endDrawing" /\ isDrawing]_vars

\* points is extended by one point
OnePointAppended(before, after) ==
  /\ Len(after) = Len(before) + 1
  /\ SubSeq(after, 1, Len(before)) = before

\* C23: the stroke grows by one point per pointer-move event while isDrawing
\* is true; a pointer-move event after the gesture has ended does not change
\* it, and only startDrawing and clearDrawing replace it.
C23_StrokeAppendOnly ==
  [][/\ (EventHandled("draw") /\ isDrawing /\ threw' # "e.touches[0]") =>
          OnePointAppended(drawingPoints, drawingPoints')
     /\ (EventHandled("draw") /\ ~isDrawing) => drawingPoints' = drawingPoints
     /\ (\/ EventHandled("endDrawing")
         \/ EventHandled("searchButton")
         \/ EventHandled("selectCategory")
         \/ events' = events) =>
          drawingPoints' = drawingPoints
     /\ (EventHandled("startDrawing") /\ threw' = NoError) =>
          Len(drawingPoints') = 1
     /\ EventHandled("clearDrawing") => drawingPoints' = <<>>]_vars

\* the render whose closure runs the search of the event: that of the
\* registered handlers for an end event on the canvas, the current one for
\* the search button
SearchClosure == IF lastEvent' = "searchButton" THEN rendered ELSE handler

\* a handler is running
Running == stack # <<>>

\* C24: a search runs to completion inside the event that triggers it.  No
\* event is handled while a handler runs and no second handler starts, so
\* two searches never overlap; when the handler that searched returns, the
\* results held are those of the stroke, the corpus and the category the
\* handler started with; and searching is false in every state in which no
\* handler runs.
C24_SearchCompletesWithinItsEvent ==
  /\ [](~Running => searching = FALSE)
  /\ [](Len(stack) <= 1)
  /\ [][Running => events' = events]_vars
  /\ [][(Running /\ ~Running' /\ searchRan') =>
          /\ searching' = FALSE
          /\ patternResults' \in
               SortedResults(stack[1].closure.drawingPoints, timeSeriesData,
                             stack[1].closure.selectedCategory)]_vars

\* two events ran a handler each, one after the other; the second one, a
\* click on the search button, searched and has returned, and the flag is
\* not set
C24_Witness ==
  /\ ~Running
  /\ events >= 2
  /\ searchRan
  /\ lastEvent = "searchButton"
  /\ ~isDrawing
  /\ ~searching
  /\ Len(patternResults) > 0

\* the arc length of the polyline from its first point to its k-th point
ArcLengthTo(points, k) == PathLength(SubSeq(points, 1, k))

\* the point of the segment from p to q at the fraction num / den
LinearBetween(p, q, num, den) ==
  Pt(p.x + (num * (q.x - p.x)) \div den, p.y + (num * (q.y - p.y)) \div den)

\* s is the point of the polyline at arc length target: it is the linear
\* interpolation on the segment that brackets target, and its distance from
\* the start of that segment is what is left of target (to the rounding of
\* the quotients and of the square root)
OnPolylineAt(points, target, s) ==
  \E k \in 2..Len(points) :
     /\ ArcLengthTo(points, k - 1) < target
     /\ target <= ArcLengthTo(points, k)
     /\ s = LinearBetween(points[k - 1], points[k],
                          target - ArcLengthTo(points, k - 1),
                          ArcLengthTo(points, k) - ArcLengthTo(points, k - 1))
     /\ Abs(Hypot(s.x - points[k - 1].x, s.y - points[k - 1].y)
              - (target - ArcLengthTo(points, k - 1))) <= 2

\* C25: for a curve of positive path length, the i-th interior point
\* returned by resampleCurve (i = 1..n-2) is the point of the input polyline
\* at arc length i * pathLength / (n - 1), by linear interpolation on the
\* bracketing segment; the returned points are in order of arc length.
C25_SamplesAtEqualArcLengths ==
  (ResampleReturned /\ Len(call.points) >= 2 /\ PathLength(call.points) > 0) =>
     /\ Len(ret) = call.n
     /\ \A i \in 1..(call.n - 2) :
          OnPolylineAt(call.points,
                       TargetDistance(i, PathLength(call.points), call.n),
                       ret[i + 1])

\* a curve with a corner and a diagonal segment was resampled to
\* numSamplePoints points, with samples inside both segments
C25_Witness ==
  /\ ResampleReturned
  /\ call.n = numSamplePoints
  /\ Len(call.points) = 3
  /\ call.points[1].y = call.points[2].y
  /\ call.points[2].x # call.points[3].x
  /\ call.points[2].y # call.points[3].y
  /\ Len(ret) = numSamplePoints
  /\ ret[2].y = call.points[1].y
  /\ ret[2].x # call.points[1].x
  /\ ret[numSamplePoints - 1] # call.points[3]
  /\ ret[numSamplePoints - 1].y # call.points[2].y

\* C26: after a stroke has ended, a later pointer-up or pointer-leave event
\* with no new stroke started does not run the search again.
C26_OneSearchPerGesture ==
  [][(EventHandled("endDrawing") /\ ~isDrawing) => ~searchRan']_vars

\* C27: in every state where the selected category is not 'All', every
\* entry of patternResults has that category.
C27_ResultsOfSelectedCategory ==
  selectedCategory # "All" =>
     \A i \in 1..Len(patternResults) :
        patternResults[i].category = selectedCategory

\* C28: whenever isDrawing is true the stroke holds at least one point, and
\* the draw handler never fails to find a previous point.
C28_StrokeNotEmptyWhileDrawing ==
  /\ isDrawing => Len(drawingPoints) >= 1
  /\ threw # "prevPoint.x"

\* C29: every search, started by an end event on the canvas or by the search
\* button, filters the corpus by the category selected when it runs.
C29_SearchUsesSelectedCategory ==
  [][(events' = events + 1 /\ searchRan') =>
       patternResults' \in
         SortedResults(SearchClosure.drawingPoints, timeSeriesData,
                       selectedCategory)]_vars

\* C30: when the stroke and the result list are empty, as they are after
\* clearDrawing, pointer-up, pointer-leave and pointer-move events leave them
\* empty and run no search; only a new stroke ends this.
C30_ClearedStaysCleared ==
  /\ [](lastEvent = "clearDrawing" =>
          drawingPoints = <<>> /\ patternResults = <<>>)
  /\ [][(/\ drawingPoints = <<>>
         /\ patternResults = <<>>
         /\ (EventHandled("draw") \/ EventHandled("endDrawing"))) =>
            /\ drawingPoints' = <<>>
            /\ patternResults' = <<>>
            /\ ~searchRan']_vars

=============================================================================
